---- MODULE Spec2Model ----
(***************************************************************************)
(* Model of the URL Collector page: the UrlForm component (normalise,      *)
(* validate, submit), the App controller (webhook request / response       *)
(* interpretation, the single result slot, the image modal), the toast     *)
(* queue with its expiry timers, and the recursive JSON image search.      *)
(*                                                                         *)
(* JavaScript strings are sequences of symbols.  A symbol is either a      *)
(* single character class (":", "/", " ") or an atomic word ("http",      *)
(* "https", "ftp", "x", ...); the words are uniquely decodable, so         *)
(* startsWith, trim and the URL parser work on symbols exactly as they do  *)
(* on the characters.                                                      *)
(***************************************************************************)
EXTENDS Integers, Sequences, FiniteSets, TLC

VARIABLES
    \* UrlForm state (useState hooks of UrlForm)
    url, error, isLoading,
    \* the normalizedUrl captured by a handleSubmit suspended at its await
    pendingUrl,
    \* App state (useState hooks of App)
    selectedUrl, webhookImage, webhookLoading, webhookNote, isImageModalOpen,
    toasts,
    \* the environment of App: pending setTimeout callbacks, the clock read
    \* by Date.now(), the postWebhook calls suspended at an await
    timers, now, requests,
    \* bookkeeping: the number of postWebhook calls / addToast calls so far,
    \* and which postWebhook call last wrote each half of the result slot
    nextReq, nextToast, imageFrom, noteFrom, lastDone,
    \* the id handed to the last removeToast call still in effect
    lastRemoved,
    \* the JSON value handed to findImageDeep, and what it returned
    data, found,
    \* the handleDownloadImage calls suspended at an await, how many calls
    \* there were, and the arguments of the last triggerDownload
    downloads, nextDl, downloaded,
    \* UrlPreview: its urlData prop, its useState hooks (previewLoading is
    \* its isLoading), the urlData captured by the pending setTimeout of its
    \* effect, the handleCopyUrl calls suspended at their await and how many
    \* calls there were
    previewUrlData, previewLoading, corsBlocked, faviconError, imageError,
    previewTimer, copying, nextCopy

formVars == <<url, error, isLoading, pendingUrl>>
appVars == <<selectedUrl, webhookImage, webhookLoading, webhookNote, isImageModalOpen>>
toastVars == <<toasts, timers, nextToast, lastRemoved>>
reqVars == <<requests, nextReq, imageFrom, noteFrom, lastDone>>
jsonVars == <<data, found>>
dlVars == <<downloads, nextDl, downloaded>>
previewVars == <<previewUrlData, previewLoading, corsBlocked, faviconError, imageError,
                 previewTimer, copying, nextCopy>>
vars == <<formVars, appVars, toastVars, now, reqVars, jsonVars, dlVars, previewVars>>

\* ---------------------------------------------------------------- bounds

\* chunks the user may type or paste into the input
MaxChunks == 2
\* postWebhook calls in one behaviour
MaxSubmits == 2
\* the clock stops advancing here
MaxTime == 4500
\* the largest amount of time that passes in one step of the clock
TickStep == 1500
\* nodes (scalars, objects, arrays) of a JSON response body
MaxNodes == 4
\* clicks on Download Image in one behaviour
MaxDownloads == 1
\* clicks on the copy button of UrlPreview in one behaviour
MaxCopies == 1

\* ---------------------------------------------------------------- strings

\* null / undefined: a one-symbol sequence that no string of the model equals
Null == <<"<null>">>

EmptyStr == <<>>

SchemeSep == <<":", "/", "/">>
HttpPrefix == <<"http">> \o SchemeSep
HttpsPrefix == <<"https">> \o SchemeSep
FtpPrefix == <<"ftp">> \o SchemeSep

\* words: runs of letters, valid in a scheme and in a host
IsWord(c) == c \in {"http", "https", "ftp", "x", "HTTP", "HTTPS", "png", "a", "b", "ok"}

\* String.prototype.toLowerCase on one symbol (the regex flag i)
LowerSym(c) == IF c = "HTTP" THEN "http" ELSE IF c = "HTTPS" THEN "https" ELSE c

\* String.prototype.startsWith
StartsWith(s, p) == Len(s) >= Len(p) /\ SubSeq(s, 1, Len(p)) = p

\* startsWith, ignoring case
StartsWithCI(s, p) ==
    /\ Len(s) >= Len(p)
    /\ \A i \in 1..Len(p) : LowerSym(s[i]) = p[i]

\* String.prototype.trim: drops the leading and the trailing white space
RECURSIVE TrimLeft(_)
TrimLeft(s) == IF s # <<>> /\ Head(s) = " " THEN TrimLeft(Tail(s)) ELSE s

RECURSIVE TrimRight(_)
TrimRight(s) ==
    IF s # <<>> /\ s[Len(s)] = " " THEN TrimRight(SubSeq(s, 1, Len(s) - 1)) ELSE s

Trim(s) == TrimRight(TrimLeft(s))

\* index of the first element of s satisfying "is c", or Len(s) + 1
RECURSIVE IndexOfFrom(_, _, _)
IndexOfFrom(s, c, i) ==
    IF i > Len(s) THEN Len(s) + 1
    ELSE IF s[i] = c THEN i ELSE IndexOfFrom(s, c, i + 1)

\* length of the run of words that s starts with
RECURSIVE WordRun(_, _)
WordRun(s, i) == IF i <= Len(s) /\ IsWord(s[i]) THEN WordRun(s, i + 1) ELSE i - 1

\* length of the run of "/" that s has from index i on
RECURSIVE SlashRun(_, _)
SlashRun(s, i) == IF i <= Len(s) /\ s[i] = "/" THEN SlashRun(s, i + 1) ELSE i - 1

\* ---------------------------------------------------------------- new URL(input)

ParseFailure == [ok |-> FALSE, protocol |-> "", hostname |-> <<>>, pathname |-> <<>>]

\* the host and port of an authority (the text up to the first "/"):
\* the host ends at the first ":", what follows it is the port
ParseAuthority(auth, special) ==
    LET colon == IndexOfFrom(auth, ":", 1)
        host == SubSeq(auth, 1, colon - 1)
        port == SubSeq(auth, colon + 1, Len(auth))
    IN  IF host = <<>> /\ (special \/ colon <= Len(auth))
        THEN [ok |-> FALSE, hostname |-> <<>>]       \* host-missing
        ELSE IF \E i \in 1..Len(host) : ~(IsWord(host[i]) \/ host[i] = ".")
        THEN [ok |-> FALSE, hostname |-> <<>>]       \* forbidden host code point
        ELSE IF port # <<>>
        THEN [ok |-> FALSE, hostname |-> <<>>]       \* the model has no digits: port-invalid
        ELSE [ok |-> TRUE, hostname |-> host]

\* String.prototype.split(c): the pieces of s between the occurrences of c
RECURSIVE Split(_, _)
Split(s, c) ==
    LET i == IndexOfFrom(s, c, 1)
    IN  IF i > Len(s) THEN <<s>>
        ELSE <<SubSeq(s, 1, i - 1)>> \o Split(SubSeq(s, i + 1, Len(s)), c)

\* The path state of the URL parser on the segments of the input, from the
\* i-th on: ".." drops the segment before it, "." is skipped, and either
\* leaves an empty segment when it ends the input.
RECURSIVE PathSegments(_, _, _)
PathSegments(segs, i, out) ==
    IF i > Len(segs) THEN out
    ELSE
    LET seg == segs[i]
        last == i = Len(segs)
        shortened == IF out = <<>> THEN out ELSE SubSeq(out, 1, Len(out) - 1)
    IN  IF seg = <<".", ".">>
        THEN PathSegments(segs, i + 1, IF last THEN Append(shortened, <<>>) ELSE shortened)
        ELSE IF seg = <<".">>
        THEN PathSegments(segs, i + 1, IF last THEN Append(out, <<>>) ELSE out)
        ELSE PathSegments(segs, i + 1, Append(out, seg))

\* the path serialised: every segment after a "/"
RECURSIVE JoinPath(_)
JoinPath(segs) ==
    IF segs = <<>> THEN <<>> ELSE <<"/">> \o Head(segs) \o JoinPath(Tail(segs))

\* the pathname of an input whose path is p (empty, or from its "/" on);
\* a space in a path is percent-encoded
Pathname(p, special) ==
    LET encoded == [i \in 1..Len(p) |-> IF p[i] = " " THEN "%20" ELSE p[i]]
    IN  IF p = <<>>
        THEN (IF special THEN <<"/">> ELSE <<>>)
        ELSE JoinPath(PathSegments(Split(Tail(encoded), "/"), 1, <<>>))

\* The URL parser without a base URL, on the symbols of the model.
ParseUrl(input) ==
    LET s == Trim(input)
        w == WordRun(s, 1)
    IN  IF s # <<>> /\ s[1] = "blob:"
        THEN \* the scheme blob with an opaque path
            [ok |-> TRUE, protocol |-> "blob:", hostname |-> <<>>, pathname |-> Tail(s)]
        ELSE IF s # <<>> /\ s[1] = "data:image/"
        THEN \* the scheme data with an opaque path that starts with image/
            [ok |-> TRUE, protocol |-> "data:", hostname |-> <<>>,
             pathname |-> <<"image/">> \o Tail(s)]
        ELSE IF w = 0 \/ w >= Len(s) \/ s[w + 1] # ":"
        THEN ParseFailure                             \* no scheme, no base URL
        ELSE
        LET scheme == [i \in 1..w |-> LowerSym(s[i])]     \* the scheme is lower-cased
            special == scheme \in {<<"http">>, <<"https">>, <<"ftp">>}
            proto == IF scheme = <<"http">> THEN "http:"
                     ELSE IF scheme = <<"https">> THEN "https:"
                     ELSE IF scheme = <<"ftp">> THEN "ftp:" ELSE "other:"
            rest == SubSeq(s, w + 2, Len(s))
            slashes == SlashRun(rest, 1)
        IN  IF special
            THEN \* special authority (ignore) slashes state, then the authority
                LET after == SubSeq(rest, slashes + 1, Len(rest))
                    stop == IndexOfFrom(after, "/", 1)
                    a == ParseAuthority(SubSeq(after, 1, stop - 1), TRUE)
                IN  IF a.ok
                    THEN [ok |-> TRUE, protocol |-> proto, hostname |-> a.hostname,
                          pathname |-> Pathname(SubSeq(after, stop, Len(after)), TRUE)]
                    ELSE ParseFailure
            ELSE IF slashes >= 2
            THEN \* "//": an authority with an opaque host
                LET after == SubSeq(rest, 3, Len(rest))
                    stop == IndexOfFrom(after, "/", 1)
                    a == ParseAuthority(SubSeq(after, 1, stop - 1), FALSE)
                IN  IF a.ok
                    THEN [ok |-> TRUE, protocol |-> proto, hostname |-> a.hostname,
                          pathname |-> Pathname(SubSeq(after, stop, Len(after)), FALSE)]
                    ELSE ParseFailure
            ELSE IF slashes = 1
            THEN \* a path without an authority
                [ok |-> TRUE, protocol |-> proto, hostname |-> <<>>,
                 pathname |-> Pathname(rest, FALSE)]
            ELSE \* an opaque path: never fails
                [ok |-> TRUE, protocol |-> proto, hostname |-> <<>>, pathname |-> rest]

\* ---------------------------------------------------------------- UrlForm

validateUrl(input) ==
    LET urlObj == ParseUrl(input)
    IN  urlObj.ok /\ (urlObj.protocol = "http:" \/ urlObj.protocol = "https:")

\* normalizeUrl without the trim
normalizeUrlNoTrim(input) ==
    IF Trim(input) = <<>> THEN EmptyStr
    ELSE IF StartsWith(input, HttpPrefix) \/ StartsWith(input, HttpsPrefix) THEN input
    ELSE HttpsPrefix \o input

normalizeUrl(input) ==
    LET trimmed == Trim(input)
    IN  IF trimmed = <<>> THEN EmptyStr
        ELSE IF StartsWith(trimmed, HttpPrefix) \/ StartsWith(trimmed, HttpsPrefix)
        THEN trimmed
        ELSE HttpsPrefix \o trimmed

\* ---------------------------------------------------------------- JSON values

\* A parsed JSON value: t is its type, s the symbols of a string, kv the
\* entries of an object or of an array in the order of Object.keys (an
\* array's keys are its indices).
JNull == [t |-> "null", s |-> <<>>, kv |-> <<>>]
JNum == [t |-> "num", s |-> <<>>, kv |-> <<>>]
JStr(str) == [t |-> "str", s |-> str, kv |-> <<>>]
JObj(entries) == [t |-> "obj", s |-> <<>>, kv |-> entries]
JArr(entries) == [t |-> "arr", s |-> <<>>, kv |-> entries]

\* the value of the JavaScript expression obj[key]; undefined when absent
Undefined == [t |-> "undefined", s |-> <<>>, kv |-> <<>>]

Get(obj, key) ==
    IF \E i \in 1..Len(obj.kv) : obj.kv[i].k = key
    THEN obj.kv[CHOOSE i \in 1..Len(obj.kv) : obj.kv[i].k = key].v
    ELSE Undefined

\* typeof v === 'object' && v (objects and arrays; not null)
IsObject(v) == v.t \in {"obj", "arr"}

\* a ?? b
Coalesce(a, b) == IF a.t \in {"null", "undefined"} THEN b ELSE a

\* /^(data:image\/.+;base64,|https?:\/\/)/i.test(s)
looksLikeUrl(s) ==
    \/ StartsWithCI(s, HttpPrefix)
    \/ StartsWithCI(s, HttpsPrefix)
    \/ /\ Len(s) >= 3
       /\ LowerSym(s[1]) = "data:image/"
       /\ \E i \in 3..Len(s) : LowerSym(s[i]) = ";base64,"

IsImageString(v) == v.t = "str" /\ looksLikeUrl(v.s)

RECURSIVE findImageDeep(_)
RECURSIVE findImageLoop(_, _)

\* findImageDeep as the specification describes it: arrays are not entered
RECURSIVE findImageSkipArraysLoop(_, _)
findImageSkipArraysLoop(obj, i) ==
    IF i > Len(obj.kv) THEN Null
    ELSE
    LET val == obj.kv[i].v
        sub == IF val.t = "obj" THEN findImageDeep(val) ELSE Null
    IN  IF IsImageString(val) THEN val.s
        ELSE IF sub # Null THEN sub
        ELSE findImageSkipArraysLoop(obj, i + 1)

findImageSkipArrays(obj) ==
    IF obj.t # "obj" THEN Null
    ELSE
    LET direct == Coalesce(Get(obj, "image"), Coalesce(Get(obj, "imageUrl"),
                  Coalesce(Get(obj, "image_url"), Coalesce(Get(obj, "thumbnail"),
                  Coalesce(Get(obj, "thumb"), Get(obj, "url"))))))
    IN  IF IsImageString(direct) THEN direct.s
        ELSE findImageSkipArraysLoop(obj, 1)

\* the for loop of findImageDeep, from the i-th key of Object.keys(obj) on
findImageLoop(obj, i) ==
    IF i > Len(obj.kv) THEN Null
    ELSE
    LET val == obj.kv[i].v
        sub == IF IsObject(val) THEN findImageDeep(val) ELSE Null
    IN  IF IsImageString(val) THEN val.s
        ELSE IF sub # Null THEN sub
        ELSE findImageLoop(obj, i + 1)

findImageDeep(obj) ==
    IF ~IsObject(obj) THEN Null
    ELSE
    LET direct == Coalesce(Get(obj, "image"), Coalesce(Get(obj, "imageUrl"),
                  Coalesce(Get(obj, "image_url"), Coalesce(Get(obj, "thumbnail"),
                  Coalesce(Get(obj, "thumb"), Get(obj, "url"))))))
    IN  IF IsImageString(direct) THEN direct.s
        ELSE findImageLoop(obj, 1)

\* ---------------------------------------------------------------- toasts

\* setTimeout(..., 3000) in addToast
ToastTimeout == 3000

\* prev.filter(toast => toast.id !== id)
RECURSIVE FilterOutId(_, _)
FilterOutId(prev, id) ==
    IF prev = <<>> THEN <<>>
    ELSE IF Head(prev).id = id THEN FilterOutId(Tail(prev), id)
    ELSE <<Head(prev)>> \o FilterOutId(Tail(prev), id)

\* addToast without its setTimeout
addToastNoTimer(message, type) ==
    /\ toasts' = Append(toasts, [id |-> now, message |-> message, type |-> type,
                                 n |-> nextToast])
    /\ nextToast' = nextToast + 1
    /\ lastRemoved' = IF lastRemoved = now THEN -1 ELSE lastRemoved
    /\ UNCHANGED timers

\* addToast(message, type): the id is the clock reading; n counts the calls
\* and names the timer that setTimeout creates
addToast(message, type) ==
    /\ toasts' = Append(toasts, [id |-> now, message |-> message, type |-> type,
                                 n |-> nextToast])
    /\ timers' = timers \cup {[id |-> now, due |-> now + ToastTimeout, n |-> nextToast]}
    /\ nextToast' = nextToast + 1
    /\ lastRemoved' = IF lastRemoved = now THEN -1 ELSE lastRemoved

\* removeToast(id), the onClose of a toast on display
removeToast(id) ==
    /\ toasts' = FilterOutId(toasts, id)
    /\ lastRemoved' = id
    /\ UNCHANGED <<timers, nextToast>>

RemoveToast ==
    /\ \E i \in 1..Len(toasts) : removeToast(toasts[i].id)
    /\ UNCHANGED <<formVars, appVars, now, reqVars, jsonVars, dlVars, previewVars>>

\* the callback of a toast's setTimeout, run once its delay has passed
TimerFired ==
    /\ \E t \in timers :
        /\ t.due <= now
        /\ toasts' = FilterOutId(toasts, t.id)
        /\ timers' = timers \ {t}
    /\ UNCHANGED <<nextToast, lastRemoved>>
    /\ UNCHANGED <<formVars, appVars, now, reqVars, jsonVars, dlVars, previewVars>>

\* the earliest time a pending timer is due, or limit when none is pending
NextDue(limit) ==
    IF \E t \in timers : t.due <= limit
    THEN CHOOSE d \in {t.due : t \in timers} : \A t \in timers : d <= t.due
    ELSE limit

\* Time passes.  The event loop is idle between the handlers of the model,
\* so a timer runs when it is due: the clock does not pass a pending timer.
Tick ==
    /\ \A t \in timers : t.due > now
    /\ now' = NextDue(now + TickStep)
    /\ now' <= MaxTime
    /\ UNCHANGED <<formVars, appVars, toastVars, reqVars, jsonVars, dlVars, previewVars>>

\* ---------------------------------------------------------------- App

NoteNoImage == <<"Webhook responded but no image field was found.">>
NoteNoBody == <<"Webhook responded with no body.">>
NoteWebhookError == <<"Webhook responded with an error.">>
NoteCors == <<"Couldn't load webhook response due to site restrictions (CORS). ">>

ToastPreview == "Preview received from webhook"
ToastSent == "URL sent successfully"
ToastWebhookError == "Webhook responded with an error"
ToastCors == "Couldn't send URL due to site restrictions (CORS)"

\* selectedUrl when it is null
NoUrlData == [url |-> Null, domain |-> Null, title |-> Null]

\* handleUrlSubmit(urlData): the state updates of postWebhook up to its first
\* await, where the request is in flight
handleUrlSubmit(urlData) ==
    /\ nextReq <= MaxSubmits
    /\ selectedUrl' = urlData
    /\ webhookLoading' = TRUE
    /\ webhookImage' = Null
    /\ webhookNote' = Null
    /\ requests' = requests \cup {[id |-> nextReq, stage |-> "fetch"]}
    /\ nextReq' = nextReq + 1
    /\ imageFrom' = 0
    /\ noteFrom' = 0
    /\ lastDone' = "none"
    /\ UNCHANGED <<isImageModalOpen, toastVars, now, jsonVars, dlVars, previewVars>>

\* the urlData the form hands to App in the specification of App alone
SampleUrlData ==
    {[url |-> HttpsPrefix \o <<"x">>, domain |-> <<"x">>, title |-> <<"x">>]}

HandleUrlSubmit ==
    /\ \E urlData \in SampleUrlData : handleUrlSubmit(urlData)
    /\ UNCHANGED formVars

\* the finally block of postWebhook, and the end of the call r
Finally(r, outcome) ==
    /\ webhookLoading' = FALSE
    /\ requests' = requests \ {r}
    /\ lastDone' = outcome
    /\ UNCHANGED <<selectedUrl, isImageModalOpen, nextReq, now, formVars>>

\* setWebhookImage(image) with its success toast
ImageOutcome(r, image) ==
    /\ webhookImage' = image
    /\ imageFrom' = r.id
    /\ addToast(ToastPreview, "success")
    /\ UNCHANGED <<webhookNote, noteFrom>>

\* setWebhookNote(note) with its toast
NoteOutcome(r, note, message, type) ==
    /\ webhookNote' = note
    /\ noteFrom' = r.id
    /\ addToast(message, type)
    /\ UNCHANGED <<webhookImage, imageFrom>>

\* the catch block of postWebhook
Catch(r) ==
    /\ NoteOutcome(r, NoteCors, ToastCors, "info")
    /\ Finally(r, "thrown")

\* the content-type headers a response may carry ('' when it has none)
ContentTypes ==
    {<<"image/", "png">>, <<"application/json">>,
     <<"application/json", "; charset=utf-8">>, <<"text/plain">>, <<>>}

\* fetch rejects: the network is unreachable or the browser blocks the call
FetchRejected ==
    /\ \E r \in requests :
        /\ r.stage = "fetch"
        /\ Catch(r)
    /\ UNCHANGED <<jsonVars, dlVars, previewVars>>

\* fetch resolves with a response that is not ok (status outside 200..299)
FetchResolvedNotOk ==
    /\ \E r \in requests :
        /\ r.stage = "fetch"
        /\ NoteOutcome(r, NoteWebhookError, ToastWebhookError, "error")
        /\ Finally(r, "non-2xx")
    /\ UNCHANGED <<jsonVars, dlVars, previewVars>>

\* fetch resolves with an ok response: the content type chooses the body
\* reader, and postWebhook is suspended again at its await
FetchResolvedOk ==
    /\ \E r \in requests, contentType \in ContentTypes :
        /\ r.stage = "fetch"
        /\ LET reader ==
                IF StartsWith(contentType, <<"image/">>) THEN "blob"
                ELSE IF \E i \in 1..Len(contentType) : contentType[i] = "application/json"
                THEN "json"
                ELSE "text"
           IN  requests' = (requests \ {r}) \cup {[id |-> r.id, stage |-> reader]}
    /\ UNCHANGED <<formVars, appVars, toastVars, now, jsonVars, dlVars, previewVars>>
    /\ UNCHANGED <<nextReq, imageFrom, noteFrom, lastDone>>

\* res.blob() resolves: URL.createObjectURL gives a fresh blob: URL
BlobResolved ==
    /\ \E r \in requests :
        /\ r.stage = "blob"
        /\ ImageOutcome(r, <<"blob:", ToString(r.id)>>)
        /\ Finally(r, "image")
    /\ UNCHANGED <<jsonVars, dlVars, previewVars>>

\* res.blob() or res.text() rejects: the body cannot be read
BodyRejected ==
    /\ \E r \in requests :
        /\ r.stage \in {"blob", "text"}
        /\ Catch(r)
    /\ UNCHANGED <<jsonVars, dlVars, previewVars>>

ImageA == <<"https", ":", "/", "/", "a">>
ImageB == <<"HTTP", ":", "/", "/", "b">>
ImageData == <<"data:image/", "png", ";base64,", "x">>
NotAnImage == <<"ok">>

\* the JSON bodies a response may carry in the specification of App
JsonBodies ==
    {JObj(<<[k |-> "status", v |-> JStr(NotAnImage)]>>),
     JObj(<<[k |-> "data", v |-> JObj(<<[k |-> "thumb", v |-> JStr(ImageA)]>>)]>>),
     JObj(<<[k |-> "items", v |-> JArr(<<[k |-> "0", v |-> JStr(ImageB)]>>)]>>),
     JStr(ImageA)}

\* the image-like strings anywhere in a JSON value
RECURSIVE ImageStrings(_)
ImageStrings(v) ==
    IF v.t = "str" THEN (IF looksLikeUrl(v.s) THEN {v.s} ELSE {})
    ELSE UNION {ImageStrings(v.kv[i].v) : i \in 1..Len(v.kv)}

\* the rest of the JSON branch, once data is what res.json() gave or null
InterpretJson(r, parsed, outcome) ==
    /\ IF findImageDeep(parsed) # Null
       THEN ImageOutcome(r, findImageDeep(parsed))
       ELSE NoteOutcome(r, NoteNoImage, ToastSent, "success")
    /\ Finally(r, outcome)
    /\ UNCHANGED <<jsonVars, dlVars, previewVars>>

\* res.json() resolves with the parsed body
JsonResolved ==
    \E r \in requests, parsed \in JsonBodies :
        /\ r.stage = "json"
        /\ InterpretJson(r, parsed,
                         IF ImageStrings(parsed) = {} THEN "json-no-image" ELSE "json")

\* res.json() rejects because the body is not JSON: the inner catch
\* swallows it and data stays null
JsonUnparsable ==
    \E r \in requests :
        /\ r.stage = "json"
        /\ InterpretJson(r, JNull, "json-unparsable")

\* res.json() rejects because the body cannot be read: the same inner catch
JsonUnreadable ==
    \E r \in requests :
        /\ r.stage = "json"
        /\ InterpretJson(r, JNull, "thrown")

\* the text bodies a response may carry
TextBodies == {<<>>, NotAnImage, <<" ">> \o ImageA \o <<" ">>, ImageData}

\* the text branch, once res.text() has resolved with text
InterpretText(r, text) ==
    /\ IF text # <<>> /\ looksLikeUrl(Trim(text))
       THEN ImageOutcome(r, Trim(text))
       ELSE IF text = <<>>
       THEN NoteOutcome(r, NoteNoBody, ToastSent, "success")
       ELSE NoteOutcome(r, NoteNoImage, ToastSent, "success")
    /\ Finally(r, "text")
    /\ UNCHANGED <<jsonVars, dlVars, previewVars>>

\* res.text() resolves
TextResolved ==
    \E r \in requests, text \in TextBodies :
        /\ r.stage = "text"
        /\ InterpretText(r, text)

\* handleViewImage, the onClick of the View Image button, which is on
\* display when a result image is
HandleViewImage ==
    /\ selectedUrl # NoUrlData /\ ~webhookLoading /\ webhookImage # Null
    /\ isImageModalOpen' = TRUE
    /\ UNCHANGED <<selectedUrl, webhookImage, webhookLoading, webhookNote>>
    /\ UNCHANGED <<formVars, toastVars, now, reqVars, jsonVars, dlVars, previewVars>>

\* closeImageModal: a click on the backdrop, or Escape while the modal is open
CloseImageModal ==
    /\ isImageModalOpen
    /\ isImageModalOpen' = FALSE
    /\ UNCHANGED <<selectedUrl, webhookImage, webhookLoading, webhookNote>>
    /\ UNCHANGED <<formVars, toastVars, now, reqVars, jsonVars, dlVars, previewVars>>

\* ---------------------------------------------------------------- download

PreviewPng == <<"preview", ".", "png">>

ToastDownloadStarted == "Download started"
ToastDownloadFailed == "Failed to download image"

\* getFilename as the specification describes it: preview.png whenever the
\* last segment has no extension
getFilenameDefault(urlStr) ==
    IF StartsWith(urlStr, <<"data:image/">>) THEN PreviewPng
    ELSE
    LET u == ParseUrl(urlStr)
        pieces == Split(u.pathname, "/")
        name == pieces[Len(pieces)]
    IN  IF ~u.ok THEN PreviewPng
        ELSE IF \E i \in 1..Len(name) : name[i] = "." THEN name ELSE PreviewPng

\* getFilename(urlStr); new URL throws on an unparsable urlStr and the catch
\* returns preview.png
getFilename(urlStr) ==
    IF StartsWith(urlStr, <<"data:image/">>) THEN PreviewPng
    ELSE
    LET u == ParseUrl(urlStr)
        pieces == Split(u.pathname, "/")
        popped == pieces[Len(pieces)]
        name == IF popped = <<>> THEN <<"preview">> ELSE popped
    IN  IF ~u.ok THEN PreviewPng
        ELSE IF \E i \in 1..Len(name) : name[i] = "." THEN name ELSE name \o <<".", "png">>

\* no triggerDownload call yet
NoDownload == [href |-> Null, filename |-> Null, image |-> Null]

\* triggerDownload(href, filename), called for the image reference image
triggerDownload(href, filename, image) ==
    downloaded' = [href |-> href, filename |-> filename, image |-> image]

\* webhookImage.startsWith('blob:') || webhookImage.startsWith('data:')
IsLocalImage(image) == image # <<>> /\ image[1] \in {"blob:", "data:image/"}

\* handleDownloadImage, the onClick of the Download Image button, up to its
\* return (a blob: or data: image) or its first await (the fetch of a remote
\* image, with webhookImage captured)
HandleDownloadImage ==
    /\ selectedUrl # NoUrlData /\ ~webhookLoading /\ webhookImage # Null
    /\ nextDl <= MaxDownloads
    /\ nextDl' = nextDl + 1
    /\ IF IsLocalImage(webhookImage)
       THEN /\ triggerDownload(webhookImage, getFilename(webhookImage), webhookImage)
            /\ addToast(ToastDownloadStarted, "success")
            /\ UNCHANGED downloads
       ELSE /\ downloads' = downloads \cup
                        {[id |-> nextDl, image |-> webhookImage, stage |-> "fetch"]}
            /\ UNCHANGED <<downloaded, toastVars>>
    /\ UNCHANGED <<formVars, appVars, now, reqVars, jsonVars, previewVars>>

\* fetch(webhookImage, { mode: 'cors' }) resolves, whatever the status; the
\* fetch of a reference that is no URL never does
DownloadFetchResolved ==
    /\ \E d \in downloads :
        /\ d.stage = "fetch"
        /\ ParseUrl(d.image).ok
        /\ downloads' = (downloads \ {d}) \cup {[id |-> d.id, image |-> d.image, stage |-> "blob"]}
    /\ UNCHANGED <<nextDl, downloaded>>
    /\ UNCHANGED <<formVars, appVars, toastVars, now, reqVars, jsonVars, previewVars>>

\* resp.blob() resolves: the object URL is downloaded under the filename of
\* the captured webhookImage
DownloadBlobResolved ==
    /\ \E d \in downloads :
        /\ d.stage = "blob"
        /\ triggerDownload(<<"blob:", "download">>, getFilename(d.image), d.image)
        /\ downloads' = downloads \ {d}
    /\ addToast(ToastDownloadStarted, "success")
    /\ UNCHANGED nextDl
    /\ UNCHANGED <<formVars, appVars, now, reqVars, jsonVars, previewVars>>

\* fetch or resp.blob() rejects (no URL, the network, CORS): the catch block
DownloadRejected ==
    /\ \E d \in downloads : downloads' = downloads \ {d}
    /\ addToast(ToastDownloadFailed, "error")
    /\ UNCHANGED <<nextDl, downloaded>>
    /\ UNCHANGED <<formVars, appVars, now, reqVars, jsonVars, previewVars>>

\* the image references a text response may carry for the download: with and
\* without an extension, without a path, with dot segments, and no URL
DownloadUrls ==
    LET site == HttpsPrefix \o <<"a">>
    IN  {site \o <<"/", "x", ".", "png">>,
         site \o <<"/", "x">>,
         site \o <<"/", "x", "/", "b", ".", "png">>,
         site \o <<"/", "x", "/">>,
         site,
         site \o <<"/", "x", ".", "png", "/", ".", ".">>,
         site \o <<"/", ".", "x">>,
         <<"HTTP">> \o SchemeSep \o <<"b", "/", "x">>,
         HttpsPrefix}

\* res.text() resolves with an image reference
TextResolvedUrl ==
    \E r \in requests, text \in DownloadUrls :
        /\ r.stage = "text"
        /\ InterpretText(r, text)

\* ---------------------------------------------------------------- UrlPreview

\* no UrlPreview is mounted / no timer is pending
NoPreview == [url |-> Null, domain |-> Null, title |-> Null, favicon |-> Null, image |-> Null]

ToastCopied == "URL copied to clipboard!"
ToastCopyFailed == "Failed to copy URL"

\* the urlData a parent may render UrlPreview with: the optional title is
\* absent, empty, the domain (the fallback of UrlForm) or a title of its
\* own; the favicon and the image are present or absent
PreviewUrlDatas ==
    {[url |-> HttpsPrefix \o <<"x">>, domain |-> <<"x">>, title |-> title,
      favicon |-> favicon, image |-> image] :
        title \in {Null, <<>>, <<"x">>, <<"OG title">>},
        favicon \in {Null, HttpsPrefix \o <<"x", "/", "favicon.ico">>},
        image \in {Null, ImageA}}

\* !urlData.title || urlData.title === urlData.domain
NoOwnTitle(urlData) ==
    urlData.title = Null \/ urlData.title = <<>> \/ urlData.title = urlData.domain

\* the first render of UrlPreview: the effect starts the timer
PreviewMount ==
    /\ previewUrlData = NoPreview
    /\ \E urlData \in PreviewUrlDatas :
        /\ previewUrlData' = urlData
        /\ previewTimer' = urlData
    /\ UNCHANGED <<previewLoading, corsBlocked, faviconError, imageError, copying, nextCopy>>
    /\ UNCHANGED <<formVars, appVars, toastVars, now, reqVars, jsonVars, dlVars>>

\* a render with another urlData object: the cleanup of the effect clears
\* the pending timer and the effect starts a new one; the state hooks keep
\* their values
PreviewUrlDataChanged ==
    /\ previewUrlData # NoPreview
    /\ \E urlData \in PreviewUrlDatas :
        /\ previewUrlData' = urlData
        /\ previewTimer' = urlData
    /\ UNCHANGED <<previewLoading, corsBlocked, faviconError, imageError, copying, nextCopy>>
    /\ UNCHANGED <<formVars, appVars, toastVars, now, reqVars, jsonVars, dlVars>>

\* UrlPreview is unmounted: the cleanup clears the timer, the state is gone
PreviewUnmount ==
    /\ previewUrlData # NoPreview
    /\ previewUrlData' = NoPreview
    /\ previewTimer' = NoPreview
    /\ previewLoading' = TRUE
    /\ corsBlocked' = FALSE
    /\ faviconError' = FALSE
    /\ imageError' = FALSE
    /\ UNCHANGED <<copying, nextCopy>>
    /\ UNCHANGED <<formVars, appVars, toastVars, now, reqVars, jsonVars, dlVars>>

\* the callback of the effect's setTimeout, one second after the render
\* that started it, with the urlData of that render
PreviewTimerFired ==
    /\ previewTimer # NoPreview
    /\ previewLoading' = FALSE
    /\ corsBlocked' = IF NoOwnTitle(previewTimer) THEN TRUE ELSE corsBlocked
    /\ previewTimer' = NoPreview
    /\ UNCHANGED <<previewUrlData, faviconError, imageError, copying, nextCopy>>
    /\ UNCHANGED <<formVars, appVars, toastVars, now, reqVars, jsonVars, dlVars>>

\* handleFaviconError, the onError of the favicon on display
HandleFaviconError ==
    /\ previewUrlData # NoPreview /\ ~previewLoading
    /\ previewUrlData.favicon # Null /\ ~faviconError
    /\ faviconError' = TRUE
    /\ UNCHANGED <<previewUrlData, previewLoading, corsBlocked, imageError, previewTimer,
                   copying, nextCopy>>
    /\ UNCHANGED <<formVars, appVars, toastVars, now, reqVars, jsonVars, dlVars>>

\* handleImageError, the onError of the preview image on display
HandleImageError ==
    /\ previewUrlData # NoPreview /\ ~previewLoading
    /\ ~NoOwnTitle(previewUrlData)
    /\ previewUrlData.image # Null /\ ~imageError
    /\ imageError' = TRUE
    /\ UNCHANGED <<previewUrlData, previewLoading, corsBlocked, faviconError, previewTimer,
                   copying, nextCopy>>
    /\ UNCHANGED <<formVars, appVars, toastVars, now, reqVars, jsonVars, dlVars>>

\* handleCopyUrl, the onClick of the copy button, up to its await
HandleCopyUrl ==
    /\ previewUrlData # NoPreview /\ ~previewLoading
    /\ nextCopy <= MaxCopies
    /\ copying' = copying + 1
    /\ nextCopy' = nextCopy + 1
    /\ UNCHANGED <<previewUrlData, previewLoading, corsBlocked, faviconError, imageError,
                   previewTimer>>
    /\ UNCHANGED <<formVars, appVars, toastVars, now, reqVars, jsonVars, dlVars>>

\* navigator.clipboard.writeText resolves or rejects; onToast is the
\* addToast of the page
CopySettled ==
    /\ copying > 0
    /\ copying' = copying - 1
    /\ \/ addToast(ToastCopied, "success")
       \/ addToast(ToastCopyFailed, "error")
    /\ UNCHANGED <<previewUrlData, previewLoading, corsBlocked, faviconError, imageError,
                   previewTimer, nextCopy>>
    /\ UNCHANGED <<formVars, appVars, now, reqVars, jsonVars, dlVars>>

\* ---------------------------------------------------------------- UrlForm handlers

ErrEnterUrl == "Please enter a URL"
ErrInvalidUrl == "Please enter a valid URL"
ErrProcess == "Failed to process URL"

\* what the user types or pastes at the end of the input
Chunks == {HttpsPrefix, HttpPrefix, FtpPrefix, <<"x">>, <<" ">>, <<"/">>}

\* the number of chunks a string of the input is made of
ChunkLen(s) ==
    Len(s) - 3 * Cardinality({i \in 1..Len(s) : s[i] \in {"http", "https", "ftp"}})

\* handleInputChange: the input is disabled while isLoading
HandleInputChange ==
    /\ ~isLoading
    /\ ChunkLen(url) < MaxChunks
    /\ \E chunk \in Chunks : url' = url \o chunk
    /\ error' = ""
    /\ UNCHANGED <<isLoading, pendingUrl>>
    /\ UNCHANGED <<appVars, toastVars, now, reqVars, jsonVars, dlVars, previewVars>>

\* handleBlur
HandleBlur ==
    /\ ~isLoading
    /\ url # <<>> /\ ~StartsWith(url, HttpPrefix) /\ ~StartsWith(url, HttpsPrefix)
    /\ url' = normalizeUrl(url)
    /\ UNCHANGED <<error, isLoading, pendingUrl>>
    /\ UNCHANGED <<appVars, toastVars, now, reqVars, jsonVars, dlVars, previewVars>>

\* handleClear: the clear button (on display when url is not empty), or Escape
HandleClear ==
    /\ url # <<>> \/ ~isLoading
    /\ url' = <<>>
    /\ error' = ""
    /\ UNCHANGED <<isLoading, pendingUrl>>
    /\ UNCHANGED <<appVars, toastVars, now, reqVars, jsonVars, dlVars, previewVars>>

\* handleSubmit up to its first await: the two early returns, or the
\* Open Graph fetch is in flight with normalizedUrl captured
HandleSubmit ==
    /\ ~isLoading
    /\ IF Trim(url) = <<>>
       THEN /\ error' = ErrEnterUrl
            /\ UNCHANGED <<isLoading, pendingUrl>>
       ELSE IF ~validateUrl(normalizeUrl(url))
       THEN /\ error' = ErrInvalidUrl
            /\ UNCHANGED <<isLoading, pendingUrl>>
       ELSE /\ isLoading' = TRUE
            /\ error' = ""
            /\ pendingUrl' = normalizeUrl(url)
    /\ UNCHANGED url
    /\ UNCHANGED <<appVars, toastVars, now, reqVars, jsonVars, dlVars, previewVars>>

\* the titles the Open Graph fetch may find; Null when the fetch is blocked
\* or the page has none
OgTitles == {Null, <<"OG title">>}

\* handleSubmit after its awaits: onSubmit(urlData), which is App's
\* handleUrlSubmit; App renders UrlForm with initialUrl = selectedUrl.url and
\* the effect on initialUrl copies it into url when it changed
HandleSubmitResume ==
    /\ isLoading
    /\ LET urlObj == ParseUrl(pendingUrl)
       IN  IF urlObj.ok
           THEN \E title \in OgTitles :
                LET urlData == [url |-> pendingUrl, domain |-> urlObj.hostname,
                                title |-> IF title = Null THEN urlObj.hostname ELSE title]
                    initialUrl == IF selectedUrl = NoUrlData THEN <<>> ELSE selectedUrl.url
                IN  /\ handleUrlSubmit(urlData)
                    /\ url' = IF initialUrl # urlData.url THEN urlData.url ELSE url
                    /\ UNCHANGED error
           ELSE /\ error' = ErrProcess
                /\ UNCHANGED <<url, appVars, toastVars, now, reqVars, jsonVars, dlVars, previewVars>>
    /\ isLoading' = FALSE
    /\ pendingUrl' = Null

\* ---------------------------------------------------------------- the JSON bodies

JsonScalars == {JNull, JNum, JStr(ImageA), JStr(ImageB), JStr(NotAnImage)}

JsonKeys == {"image", "thumb", "url", "data"}

RECURSIVE JsonSize(_)
RECURSIVE JsonSizeFrom(_, _)
JsonSizeFrom(kv, i) == IF i > Len(kv) THEN 0 ELSE JsonSize(kv[i].v) + JsonSizeFrom(kv, i + 1)
JsonSize(v) == 1 + JsonSizeFrom(v.kv, 1)

\* The body of the response is some JSON value of at most MaxNodes nodes:
\* it is built up one node at a time, and findImageDeep is run on it.
Parsed(v) ==
    /\ JsonSize(v) <= MaxNodes
    /\ data' = v
    /\ found' = findImageDeep(v)
    /\ UNCHANGED <<formVars, appVars, toastVars, now, reqVars, dlVars, previewVars>>

BodyIsScalar == \E v \in JsonScalars : data.t \notin {"obj", "arr"} /\ Parsed(v)

BodyInObject == \E key \in JsonKeys : Parsed(JObj(<<[k |-> key, v |-> data]>>))

BodyInArray == Parsed(JArr(<<[k |-> "0", v |-> data]>>))

BodyWithField ==
    \E key \in JsonKeys, v \in JsonScalars :
        /\ data.t = "obj"
        /\ \A i \in 1..Len(data.kv) : data.kv[i].k # key
        /\ \/ Parsed(JObj(Append(data.kv, [k |-> key, v |-> v])))
           \/ Parsed(JObj(<<[k |-> key, v |-> v]>> \o data.kv))

BodyWithItem ==
    \E v \in JsonScalars :
        /\ data.t = "arr"
        /\ Parsed(JArr(Append(data.kv, [k |-> ToString(Len(data.kv)), v |-> v])))

\* ---------------------------------------------------------------- specifications

Init ==
    /\ url = <<>>
    /\ error = ""
    /\ isLoading = FALSE
    /\ pendingUrl = Null
    /\ selectedUrl = NoUrlData
    /\ webhookImage = Null
    /\ webhookLoading = FALSE
    /\ webhookNote = Null
    /\ isImageModalOpen = FALSE
    /\ toasts = <<>>
    /\ timers = {}
    /\ now = 0
    /\ requests = {}
    /\ nextReq = 1
    /\ nextToast = 1
    /\ imageFrom = 0
    /\ noteFrom = 0
    /\ lastDone = "none"
    /\ lastRemoved = -1
    /\ data = JNull
    /\ found = Null
    /\ downloads = {}
    /\ nextDl = 1
    /\ downloaded = NoDownload
    /\ previewUrlData = NoPreview
    /\ previewLoading = TRUE
    /\ corsBlocked = FALSE
    /\ faviconError = FALSE
    /\ imageError = FALSE
    /\ previewTimer = NoPreview
    /\ copying = 0
    /\ nextCopy = 1

\* App: submissions, the webhook's responses, the modal, the toasts, the clock
Next ==
    \/ HandleUrlSubmit
    \/ FetchRejected
    \/ FetchResolvedNotOk
    \/ FetchResolvedOk
    \/ BlobResolved
    \/ BodyRejected
    \/ JsonResolved
    \/ JsonUnparsable
    \/ JsonUnreadable
    \/ TextResolved
    \/ HandleViewImage
    \/ CloseImageModal
    \/ RemoveToast
    \/ TimerFired
    \/ Tick

Spec == Init /\ [][Next]_vars

\* UrlForm: typing, blur, clear, submit
NextForm ==
    \/ HandleInputChange
    \/ HandleBlur
    \/ HandleClear
    \/ HandleSubmit
    \/ HandleSubmitResume

SpecForm == Init /\ [][NextForm]_vars

\* findImageDeep on the JSON bodies
NextJson ==
    \/ BodyIsScalar
    \/ BodyInObject
    \/ BodyInArray
    \/ BodyWithField
    \/ BodyWithItem

SpecJson == Init /\ [][NextJson]_vars

\* the download of the result image: submissions whose response is an image
\* or a text that names one, and the Download Image button
NextDownload ==
    \/ HandleUrlSubmit
    \/ FetchResolvedOk
    \/ BlobResolved
    \/ TextResolvedUrl
    \/ HandleDownloadImage
    \/ DownloadFetchResolved
    \/ DownloadBlobResolved
    \/ DownloadRejected

SpecDownload == Init /\ [][NextDownload]_vars

\* UrlPreview: renders with a urlData, its load timer, its handlers
NextPreview ==
    \/ PreviewMount
    \/ PreviewUrlDataChanged
    \/ PreviewUnmount
    \/ PreviewTimerFired
    \/ HandleFaviconError
    \/ HandleImageError
    \/ HandleCopyUrl
    \/ CopySettled

SpecPreview == Init /\ [][NextPreview]_vars

\* ---------------------------------------------------------------- properties

HasPrefix(s) == StartsWith(s, HttpPrefix) \/ StartsWith(s, HttpsPrefix)

\* the request of the latest submission
LatestReq == nextReq - 1

\* which request produced the result on display (webhookImage, else webhookNote)
ShownFrom == IF webhookImage # Null THEN imageFrom ELSE noteFrom

\* C1: at most one interpretation result is active: webhookImage and
\* webhookNote are never both non-null, whatever the order of submissions
\* and completions.
C1_AtMostOneResult == ~(webhookImage # Null /\ webhookNote # Null)

\* C2: once every request in flight has completed, the result on display is
\* the one the latest submission produced.
C2_LatestResultShown ==
    (requests = {} /\ LatestReq >= 1) => ShownFrom = LatestReq

\* the raw input is a URL with a host whose scheme is neither http nor
\* https, as ftp://x is
HasOtherScheme(raw) ==
    /\ ParseUrl(raw).ok
    /\ ParseUrl(raw).hostname # <<>>
    /\ ParseUrl(raw).protocol \notin {"http:", "https:"}

\* C3: handleSubmit never accepts (never starts loading, so never calls
\* onSubmit for) an input that is unparsable once normalised or whose scheme
\* is neither http nor https.
C3_InvalidUrlRejected ==
    [][(~isLoading /\ isLoading') =>
            /\ ParseUrl(normalizeUrl(url)).ok
            /\ ~HasOtherScheme(url)]_vars

\* C4 as stated: every input without the prefix gets https:// prepended to
\* its trimmed text, an input with the prefix is returned trimmed, and
\* normalizeUrl is idempotent.
C4_PrefixAlwaysAdded ==
    LET trimmed == Trim(url)
    IN  /\ ~HasPrefix(trimmed) => normalizeUrl(url) = HttpsPrefix \o trimmed
        /\ HasPrefix(trimmed) => normalizeUrl(url) = trimmed
        /\ normalizeUrl(normalizeUrl(url)) = normalizeUrl(url)

\* C4, amended: a blank input normalises to the empty string; every other
\* input without the prefix gets https:// prepended exactly once to its
\* trimmed text; an input with the prefix is returned trimmed; normalizeUrl
\* is idempotent, and what handleSubmit goes on with is a fixed point of it.
C4_NormalizeUrl ==
    LET trimmed == Trim(url)
        normalized == normalizeUrl(url)
    IN  /\ trimmed = <<>> => normalized = <<>>
        /\ (trimmed # <<>> /\ ~HasPrefix(trimmed)) =>
                /\ normalized = HttpsPrefix \o trimmed
                /\ ~HasPrefix(SubSeq(normalized, Len(HttpsPrefix) + 1, Len(normalized)))
        /\ HasPrefix(trimmed) => normalized = trimmed
        /\ normalizeUrl(normalized) = normalized
        /\ isLoading => (HasPrefix(pendingUrl) /\ normalizeUrl(pendingUrl) = pendingUrl)

\* handleSubmit has normalised an input that has white space around it and
\* no prefix
C4_Witness ==
    /\ isLoading
    /\ url # Trim(url)
    /\ ~HasPrefix(Trim(url))
    /\ pendingUrl = HttpsPrefix \o Trim(url)

\* the toast of the latest addToast call, when it is still on display
LatestToastIs(message, type) ==
    \A i \in 1..Len(toasts) :
        toasts[i].n = nextToast - 1 => (toasts[i].message = message /\ toasts[i].type = type)

\* C5: a response that is not ok ends as the webhook error (its note, an
\* error toast), a thrown failure of fetch or of the body read ends as the
\* transport error (the CORS note, an info toast), and neither sets an image.
C5_FailureClassification ==
    /\ lastDone = "non-2xx" =>
            /\ webhookNote = NoteWebhookError
            /\ LatestToastIs(ToastWebhookError, "error")
            /\ imageFrom # noteFrom
    /\ lastDone = "thrown" =>
            /\ webhookNote = NoteCors
            /\ LatestToastIs(ToastCors, "info")
            /\ imageFrom # noteFrom

PriorityNames == <<"image", "imageUrl", "image_url", "thumbnail", "thumb", "url">>

\* the listed fields of obj that hold an image-like string, by priority
ListedImages(obj) ==
    SelectSeq(PriorityNames, LAMBDA name : IsImageString(Get(obj, name)))

\* C6: when a listed field of the object holds an image-like string,
\* findImageDeep returns the value of the highest-priority such field, and
\* not a nested value or the value of another field.
C6_PriorityListFirst ==
    (data.t = "obj" /\ ListedImages(data) # <<>>) =>
        found = Get(data, Head(ListedImages(data))).s

\* the image-like strings of a value that are reached through objects only
RECURSIVE ImageStringsViaObjects(_)
ImageStringsViaObjects(v) ==
    IF v.t # "obj" THEN {}
    ELSE UNION {IF v.kv[i].v.t = "str" THEN ImageStrings(v.kv[i].v)
                ELSE ImageStringsViaObjects(v.kv[i].v) : i \in 1..Len(v.kv)}

\* C7 as stated: findImageDeep never returns a string that is reachable
\* only through an array.
C7_ArraysNotTraversed ==
    found # Null => found \in ImageStringsViaObjects(data)

\* C7, amended: findImageDeep enters arrays as it enters objects: for an
\* object or an array it returns an image-like string of the value, wherever
\* one occurs in it (an array element and an object inside an array
\* included), and null only when the value holds none.
C7_ArraysTraversed ==
    IsObject(data) =>
        /\ found = Null <=> ImageStrings(data) = {}
        /\ found # Null => found \in ImageStrings(data)

\* an object whose only image-like strings lie inside an array, and
\* findImageDeep has returned one of them
C7_Witness ==
    /\ data.t = "obj"
    /\ ImageStringsViaObjects(data) = {}
    /\ found # Null
    /\ found \in ImageStrings(data)

\* C8: an ok JSON response whose body does not parse, or holds no image-like
\* string, ends with webhookImage null and the "no image field" note.
C8_JsonWithoutImageIsNote ==
    lastDone \in {"json-unparsable", "json-no-image"} =>
        (webhookImage = Null /\ webhookNote = NoteNoImage)

\* C9: when a request has completed, loading is over and exactly one of
\* webhookImage and webhookNote is set; a submission issues one request.
C9_OneTerminalOutcome ==
    /\ Cardinality(requests) <= LatestReq
    /\ lastDone # "none" =>
            /\ ~webhookLoading
            /\ (webhookImage = Null) # (webhookNote = Null)

\* C10: a toast on display was added at most ToastTimeout ago, so one added
\* at T is gone once the clock is past T + 3000; removeToast leaves no toast
\* with its id; the toasts on display are in the order they were added.
C10_ToastLifetime ==
    /\ \A i \in 1..Len(toasts) : now <= toasts[i].id + ToastTimeout
    /\ \A i, j \in 1..Len(toasts) : i < j => toasts[i].n < toasts[j].n
    /\ lastRemoved # -1 => \A i \in 1..Len(toasts) : toasts[i].id # lastRemoved

\* two toasts were added, the second later than the first; nobody dismissed
\* one; the timer of the first has run and only the second is on display
C10_Witness ==
    /\ nextToast = 3
    /\ lastRemoved = -1
    /\ Len(toasts) = 1
    /\ toasts[1].n = 2
    /\ timers # {} /\ \A t \in timers : t.n = 2
    /\ toasts[1].id + ToastTimeout > now
    /\ toasts[1].id > 0

\* the text of a path after its last "/"
AfterLastSlash(path) ==
    LET at == {i \in 1..Len(path) : path[i] = "/"}
    IN  IF at = {} THEN path
        ELSE SubSeq(path, (CHOOSE i \in at : \A j \in at : j <= i) + 1, Len(path))

HasExtension(segment) == \E i \in 1..Len(segment) : segment[i] = "."

\* a download has been triggered for a remote image reference
RemoteDownloaded == downloaded # NoDownload /\ ~IsLocalImage(downloaded.image)

\* C11 as stated: the file downloaded for a remote image reference is named
\* by the last path segment of its URL when that segment has an extension,
\* and preview.png otherwise.
C11_DefaultsToPreview ==
    RemoteDownloaded =>
        LET u == ParseUrl(downloaded.image)
            segment == AfterLastSlash(u.pathname)
        IN  downloaded.filename =
                IF u.ok /\ HasExtension(segment) THEN segment ELSE PreviewPng

\* C11, amended: the file downloaded for a remote image reference is named
\* by the last segment of the URL's pathname when that segment has a ".",
\* by that segment with .png appended when it is not empty and has none, and
\* preview.png when it is empty; a reference that is no URL gets the name
\* preview.png from getFilename, and no download is triggered for it.
C11_DownloadFilename ==
    /\ RemoteDownloaded =>
        LET u == ParseUrl(downloaded.image)
            segment == AfterLastSlash(u.pathname)
        IN  /\ u.ok
            /\ downloaded.href # downloaded.image
            /\ downloaded.filename =
                    IF HasExtension(segment) THEN segment
                    ELSE IF segment # <<>> THEN segment \o <<".", "png">>
                    ELSE PreviewPng
    /\ \A d \in downloads :
            ~ParseUrl(d.image).ok => (d.stage = "fetch" /\ getFilename(d.image) = PreviewPng)

\* the image at https://a/x has been downloaded as x.png
C11_Witness ==
    /\ downloaded.image = HttpsPrefix \o <<"a", "/", "x">>
    /\ downloaded.filename = <<"x", ".", "png">>

\* C12: while the request of the latest submission is in flight (its
\* response is not interpreted yet), webhookLoading is true, even when the
\* request of an earlier submission completes in between.
C12_LoadingTracksLatest ==
    (\E r \in requests : r.id = LatestReq) => webhookLoading

\* the image modal is rendered: isImageModalOpen && webhookImage
ModalVisible == isImageModalOpen /\ webhookImage # Null

\* C13: the modal is visible after a step only when it was visible with the
\* same image before the step, or the step is the View Image click on the
\* image on display: no image that arrived after the last click is ever
\* shown in it.
C13_ModalOnlyByViewClick ==
    [][(isImageModalOpen' /\ webhookImage' # Null) =>
            \/ ModalVisible /\ webhookImage' = webhookImage /\ imageFrom' = imageFrom
            \/ ~isImageModalOpen /\ webhookImage # Null /\ webhookImage' = webhookImage
                    /\ imageFrom' = imageFrom]_vars

\* C14: the toasts on display have distinct ids, so a step that removes
\* toasts (removeToast or an expiry timer) removes exactly one and leaves
\* the others as they were, also for toasts added at one clock reading.
C14_RemovesExactlyOne ==
    [][(Len(toasts') < Len(toasts)) =>
            /\ \A i, j \in 1..Len(toasts) : toasts[i].id = toasts[j].id => i = j
            /\ Len(toasts') = Len(toasts) - 1]_vars

\* the Limited Preview notice is rendered
NoticeShown == previewUrlData # NoPreview /\ ~previewLoading /\ corsBlocked

\* C15: once the load timer of the current urlData has fired, the Limited
\* Preview notice is shown if and only if the current urlData has no title
\* or its title equals its domain, whatever urlData came before.
C15_NoticeMatchesUrlData ==
    (previewUrlData # NoPreview /\ previewTimer = NoPreview) =>
        (NoticeShown <=> NoOwnTitle(previewUrlData))

====
